---- MODULE Spec2Model ----
(***************************************************************************)
(* Model of src/app.py: a Streamlit dashboard script.  Streamlit re-runs   *)
(* the whole script top to bottom on every user interaction; the two       *)
(* decorated loaders (st.cache_data / st.cache_resource) keep their result *)
(* for the lifetime of the process.  One script run is modelled as the     *)
(* sequence of its sections (load_data, load_model, sidebar + filter,      *)
(* KPIs, prediction tool, at-risk table); a section either completes or    *)
(* raises, and a raise transfers control to the single except block.       *)
(*                                                                         *)
(* Abstractions: a table row keeps the columns CustomerID, Segment_Name,   *)
(* Churned and Monetary (Recency, Frequency and AvgOrderValue are only     *)
(* passed through to the display); Monetary is in whole pounds; a churn    *)
(* probability is an integer number of percent; the charts are not         *)
(* modelled; the fitted scaler and classifier are opaque, so the           *)
(* probability they return is drawn from ProbValues.                       *)
(***************************************************************************)
EXTENDS Integers, Sequences, FiniteSets, TLC

\* ------------------------------------------------------------------ bounds
MaxRows == 22        \* largest table on disk
MaxReads == 2        \* cap on the counter of reads of the dataset file

\* ------------------------------------------------------- program constants
TopN == 20               \* .head(20)
HighThreshold == 70      \* churn_prob > 0.7, in percent
ModerateThreshold == 50  \* churn_prob > 0.5, in percent
HighValueThreshold == 2000   \* monetary > 2000

\* ----------------------------------------------------------- input domains
ProbValues == {0, 50, 51, 70, 71, 100}
MonetaryInputs == {0, 2000, 2001, 300000}
ChurnFilterOptions == {"All", "Active Only", "Churned Only"}
FileStates == {"ok", "corrupt", "missing"}
ChurnPatterns == 0 .. 2
TieOrders == {"first", "last"}

Min(a, b) == IF a < b THEN a ELSE b

\* --------------------------------------------------- the dataset on disk
\* Row i of the table customer_segments.csv with churn pattern c.
CustomerRecord(i, c) ==
    [CustomerID   |-> i,
     Segment_Name |-> IF i % 3 = 0 THEN "B" ELSE "A",
     Churned      |-> IF c = 0 THEN 1
                      ELSE IF c = 1 THEN 0
                      ELSE IF i % 2 = 0 THEN 0 ELSE 1,
     Monetary     |-> ((i * 7) % 11) * 300]

CsvTable(n, c) == [i \in 1 .. n |-> CustomerRecord(i, c)]

Tables == {CsvTable(n, c) : n \in 0 .. MaxRows, c \in ChurnPatterns}

\* ------------------------------------------------------- pandas helpers
RECURSIVE SumTo(_, _, _)
SumTo(frame, col, n) ==
    IF n = 0 THEN 0
    ELSE SumTo(frame, col, n - 1) + frame[n][col]

\* Series.sum(): 0 on an empty series.
Sum(frame, col) == SumTo(frame, col, Len(frame))

\* A float: either NaN or the exact quotient num / den.
NaN == [nan |-> TRUE, num |-> 0, den |-> 1]
Float(n, d) == [nan |-> FALSE, num |-> n, den |-> d]

\* Series.mean(): sum / count, which is NaN on an empty series.
Mean(frame, col) ==
    IF Len(frame) = 0 THEN NaN
    ELSE Float(Sum(frame, col), Len(frame))

\* float * int; NaN * k is NaN.
Times(x, k) == IF x.nan THEN NaN ELSE Float(x.num * k, x.den)

\* df['Segment_Name'].unique()
segment_options(frame) == {frame[i].Segment_Name : i \in DOMAIN frame}

\* Insert row r into s, which is sorted by Monetary descending.  Pandas
\* sorts with kind='quicksort', which is not stable: rows with equal
\* Monetary come out in an order the build decides (tie).
InsertDesc(s, r, tie) ==
    LET k == Cardinality({j \in DOMAIN s :
                 \/ s[j].Monetary > r.Monetary
                 \/ s[j].Monetary = r.Monetary /\ tie = "first"})
    IN SubSeq(s, 1, k) \o <<r>> \o SubSeq(s, k + 1, Len(s))

RECURSIVE SortTo(_, _, _)
SortTo(frame, n, tie) ==
    IF n = 0 THEN <<>>
    ELSE InsertDesc(SortTo(frame, n - 1, tie), frame[n], tie)

\* frame.sort_values('Monetary', ascending=False)
sort_values(frame, tie) == SortTo(frame, Len(frame), tie)

\* frame.head(n)
head(frame, n) == SubSeq(frame, 1, Min(n, Len(frame)))

IsActive(r) == r.Churned = 0
IsChurned(r) == r.Churned = 1

\* ------------------------------------------------------------ load_model
\* Variant: the except clause keeps the classifier that was already loaded.
load_model_partial(mf, sf) ==
    IF mf # "ok" THEN <<"None", "None">>
    ELSE IF sf # "ok" THEN <<"model", "None">>
    ELSE <<"model", "scaler">>

load_model(mf, sf) ==
    IF mf # "ok" THEN <<"None", "None">>
    ELSE IF sf # "ok" THEN <<"None", "None">>
    ELSE <<"model", "scaler">>

\* ----------------------------------------------------------- filter data
\* Variant: the two churn-status branches are exchanged.
FilterData_swapped(frame, segs, churn) ==
    LET InSegs(r) == r.Segment_Name \in segs
        bySegment == SelectSeq(frame, InSegs)
    IN IF churn = "Active Only" THEN SelectSeq(bySegment, IsChurned)
       ELSE IF churn = "Churned Only" THEN SelectSeq(bySegment, IsActive)
       ELSE bySegment

FilterData(frame, segs, churn) ==
    LET InSegs(r) == r.Segment_Name \in segs
        bySegment == SelectSeq(frame, InSegs)
    IN IF churn = "Active Only" THEN SelectSeq(bySegment, IsActive)
       ELSE IF churn = "Churned Only" THEN SelectSeq(bySegment, IsChurned)
       ELSE bySegment

\* ------------------------------------------------------------------ KPIs
KPIs(view) ==
    [count         |-> Len(view),
     churn_rate    |-> Times(Mean(view, "Churned"), 100),
     total_revenue |-> Sum(view, "Monetary"),
     avg_value     |-> Mean(view, "Monetary")]

\* ------------------------------------------------------- prediction tool
\* Variant: the prediction tool is not gated on the loaded pair.
PredictionEnabled_always(m, s) == TRUE

PredictionEnabled(m, s) == m # "None" /\ s # "None"

\* Variant: the HIGH threshold is inclusive.
RiskTier_inclusive(p) ==
    IF p >= HighThreshold THEN "HIGH"
    ELSE IF p > ModerateThreshold THEN "MODERATE"
    ELSE "LOW"

RiskTier(p) ==
    IF p > HighThreshold THEN "HIGH"
    ELSE IF p > ModerateThreshold THEN "MODERATE"
    ELSE "LOW"

\* Variant: the high-value threshold is inclusive.
RecommendedAction_inclusive(p, m) ==
    IF p > HighThreshold
    THEN IF m >= HighValueThreshold THEN "High-Value Customer"
         ELSE "Standard Intervention"
    ELSE IF p > ModerateThreshold THEN "Early Warning"
    ELSE "Healthy Customer"

RecommendedAction(p, m) ==
    IF p > HighThreshold
    THEN IF m > HighValueThreshold THEN "High-Value Customer"
         ELSE "Standard Intervention"
    ELSE IF p > ModerateThreshold THEN "Early Warning"
    ELSE "Healthy Customer"

\* --------------------------------------------------------- at-risk table
\* Variant: the churned rows are taken in table order, without the sort.
AtRisk_unsorted(view, tie) == head(SelectSeq(view, IsChurned), TopN)

AtRisk(view, tie) == head(sort_values(SelectSeq(view, IsChurned), tie), TopN)

Digit == <<"0", "1", "2", "3", "4", "5", "6", "7", "8", "9">>

\* The decimal digits of n, without leading zeros.
RECURSIVE Decimal(_)
Decimal(n) ==
    IF n < 10 THEN <<Digit[n + 1]>>
    ELSE Decimal(n \div 10) \o <<Digit[(n % 10) + 1]>>

\* The ',' format option: groups of three digits separated by commas.
RECURSIVE Grouped(_)
Grouped(n) ==
    IF n < 1000 THEN Decimal(n)
    ELSE Grouped(n \div 1000)
         \o <<",", Digit[((n \div 100) % 10) + 1],
                   Digit[((n \div 10) % 10) + 1],
                   Digit[(n % 10) + 1]>>

\* f"£{x:,.2f}" of a whole number of pounds, as its characters.
FormatCurrency(x) == <<"£">> \o Grouped(x) \o <<".", "0", "0">>

\* The projection shown by st.dataframe.
DisplayRow(r) ==
    [CustomerID  |-> r.CustomerID,
     Segment     |-> r.Segment_Name,
     Total_Spent |-> FormatCurrency(r.Monetary)]

FormatForDisplay(frame) == [i \in DOMAIN frame |-> DisplayRow(frame[i])]

CsvHeader == <<"CustomerID", "Segment_Name", "Churned", "Monetary">>

CsvLine(r) == <<r.CustomerID, r.Segment_Name, r.Churned, r.Monetary>>

\* frame.to_csv(index=False): the header line, then one line per row.
to_csv(frame) == <<CsvHeader>> \o [i \in DOMAIN frame |-> CsvLine(frame[i])]

\* os.path.exists of the three input files.
DebugInformation(present, mf, sf) ==
    [csv_exists    |-> present,
     model_exists  |-> mf # "missing",
     scaler_exists |-> sf # "missing"]

\* Variant: the loaders are not cached.
cache_hit_never(cache) == FALSE

\* st.cache_data / st.cache_resource: a stored result is returned as is.
cache_hit(cache) == Len(cache) > 0

\* ------------------------------------------------------------------ state
VARIABLES
    disk,            \* the table in data/processed/customer_segments.csv
    datasetPresent,  \* whether that file exists
    modelFile,       \* state of outputs/models/churn_model.pkl
    scalerFile,      \* state of outputs/models/scaler.pkl
    dataCache,       \* st.cache_data of load_data: <<>> or <<table>>
    modelCache,      \* st.cache_resource of load_model: <<>> or <<pair>>
    reads,           \* number of times read_csv has read the file
    pc,              \* the section the current script run is at
    ran,             \* the sections this run has entered, in order
    raised,          \* the section that raised in this run, "" if none
    df, model, scaler,
    segments, churn_filter, filtered_df,
    kpis,
    pressed, monetary, churn_prob, scorer_calls,
    risk_display, recommendation, model_warning,
    at_risk, display_df, csv, no_at_risk_msg,
    error_shown, debug_info

persistent == <<disk, datasetPresent, modelFile, scalerFile,
                dataCache, modelCache, reads>>
control == <<pc, ran, raised>>
loaded == <<df, model, scaler>>
filters == <<segments, churn_filter, filtered_df>>
prediction == <<pressed, monetary, churn_prob, scorer_calls,
                risk_display, recommendation, model_warning>>
report == <<at_risk, display_df, csv, no_at_risk_msg>>
failure == <<error_shown, debug_info>>

vars == <<persistent, control, loaded, filters, kpis, prediction, report,
          failure>>

Pipeline == <<"load_data", "load_model", "filter", "kpis",
              "prediction_tool", "at_risk">>

NoKPIs == [count |-> 0, churn_rate |-> Float(0, 1),
           total_revenue |-> 0, avg_value |-> Float(0, 1)]

Init ==
    /\ disk \in Tables
    /\ datasetPresent \in BOOLEAN
    /\ modelFile \in FileStates
    /\ scalerFile \in FileStates
    /\ dataCache = <<>>
    /\ modelCache = <<>>
    /\ reads = 0
    \* a script run starts with nothing assigned and nothing displayed
    /\ pc = "load_data"
    /\ ran = <<>>
    /\ raised = ""
    /\ df = <<>>
    /\ model = "unset"
    /\ scaler = "unset"
    /\ segments = {}
    /\ churn_filter = "All"
    /\ filtered_df = <<>>
    /\ kpis = NoKPIs
    /\ pressed = FALSE
    /\ monetary = 0
    /\ churn_prob = 0
    /\ scorer_calls = 0
    /\ risk_display = ""
    /\ recommendation = ""
    /\ model_warning = FALSE
    /\ at_risk = <<>>
    /\ display_df = <<>>
    /\ csv = <<>>
    /\ no_at_risk_msg = FALSE
    /\ error_shown = FALSE
    /\ debug_info = <<>>

\* A section that raises: control goes to the except block.
Raise(section) ==
    /\ pc = section
    /\ pc' = "except"
    /\ ran' = Append(ran, section)
    /\ raised' = section

\* A section that completes: control goes to the next one.
Complete(section, next) ==
    /\ pc = section
    /\ pc' = next
    /\ ran' = Append(ran, section)
    /\ raised' = raised

\* df = load_data(), served from the cache.
LoadDataCached ==
    /\ cache_hit(dataCache)
    /\ Complete("load_data", "load_model")
    /\ df' = dataCache[1]
    /\ UNCHANGED <<persistent, model, scaler, filters, kpis, prediction,
                   report, failure>>

\* df = load_data(), reading the file.
LoadDataRead ==
    /\ ~cache_hit(dataCache)
    /\ datasetPresent
    /\ reads < MaxReads
    /\ Complete("load_data", "load_model")
    /\ reads' = reads + 1
    /\ dataCache' = <<disk>>
    /\ df' = disk
    /\ UNCHANGED <<disk, datasetPresent, modelFile, scalerFile, modelCache,
                   model, scaler, filters, kpis, prediction, report, failure>>

\* df = load_data() with the file absent: read_csv raises.
LoadDataRaises ==
    /\ ~cache_hit(dataCache)
    /\ ~datasetPresent
    /\ Raise("load_data")
    /\ UNCHANGED <<persistent, loaded, filters, kpis, prediction, report,
                   failure>>

\* model, scaler = load_model()
LoadModel ==
    /\ Complete("load_model", "filter")
    /\ LET pair == IF cache_hit(modelCache) THEN modelCache[1]
                   ELSE load_model(modelFile, scalerFile)
       IN /\ modelCache' = <<pair>>
          /\ model' = pair[1]
          /\ scaler' = pair[2]
    /\ UNCHANGED <<disk, datasetPresent, modelFile, scalerFile, dataCache,
                   reads, df, filters, kpis, prediction, report, failure>>

\* The sidebar widgets and the filter.
Filter ==
    /\ Complete("filter", "kpis")
    /\ \E segs \in SUBSET segment_options(df), churn \in ChurnFilterOptions :
          /\ segments' = segs
          /\ churn_filter' = churn
          /\ filtered_df' = FilterData(df, segs, churn)
    /\ UNCHANGED <<persistent, loaded, kpis, prediction, report, failure>>

FilterRaises ==
    /\ Raise("filter")
    /\ UNCHANGED <<persistent, loaded, filters, kpis, prediction, report,
                   failure>>

\* The four st.metric columns.
KeyMetrics ==
    /\ Complete("kpis", "prediction_tool")
    /\ kpis' = KPIs(filtered_df)
    /\ UNCHANGED <<persistent, loaded, filters, prediction, report, failure>>

\* Variant: the exception is swallowed and the run goes on.
KeyMetricsRaises_swallowed ==
    /\ pc = "kpis"
    /\ pc' = "prediction_tool"
    /\ ran' = Append(ran, "kpis")
    /\ raised' = "kpis"
    /\ UNCHANGED <<persistent, loaded, filters, kpis, prediction, report,
                   failure>>

KeyMetricsRaises ==
    /\ Raise("kpis")
    /\ UNCHANGED <<persistent, loaded, filters, kpis, prediction, report,
                   failure>>

\* The prediction form with the button pressed.
Predict ==
    /\ PredictionEnabled(model, scaler)
    /\ Complete("prediction_tool", "at_risk")
    /\ \E m \in MonetaryInputs, p \in ProbValues :
          /\ pressed' = TRUE
          /\ monetary' = m
          /\ scorer_calls' = scorer_calls + 1
          /\ churn_prob' = p
          /\ risk_display' = RiskTier(p)
          /\ recommendation' = RecommendedAction(p, m)
    /\ UNCHANGED <<persistent, loaded, filters, kpis, model_warning, report,
                   failure>>

\* The prediction form with the button not pressed.
PredictionIdle ==
    /\ PredictionEnabled(model, scaler)
    /\ Complete("prediction_tool", "at_risk")
    /\ UNCHANGED <<persistent, loaded, filters, kpis, prediction, report,
                   failure>>

\* scaler.transform or model.predict_proba raises.
PredictRaises ==
    /\ PredictionEnabled(model, scaler)
    /\ Raise("prediction_tool")
    /\ pressed' = TRUE
    /\ scorer_calls' = scorer_calls + 1
    /\ UNCHANGED <<persistent, loaded, filters, kpis, monetary, churn_prob,
                   risk_display, recommendation, model_warning, report,
                   failure>>

\* The else branch: the model is not loaded.
PredictionDisabled ==
    /\ ~PredictionEnabled(model, scaler)
    /\ Complete("prediction_tool", "at_risk")
    /\ model_warning' = TRUE
    /\ UNCHANGED <<persistent, loaded, filters, kpis, pressed, monetary,
                   churn_prob, scorer_calls, risk_display, recommendation,
                   report, failure>>

\* The at-risk table and the download button.
AtRiskTable ==
    /\ Complete("at_risk", "done")
    /\ \E tie \in TieOrders :
         LET top == AtRisk(filtered_df, tie) IN
           /\ at_risk' = top
           /\ IF Len(top) > 0
              THEN /\ display_df' = FormatForDisplay(top)
                   /\ csv' = to_csv(top)
                   /\ no_at_risk_msg' = FALSE
              ELSE /\ display_df' = <<>>
                   /\ csv' = <<>>
                   /\ no_at_risk_msg' = TRUE
    /\ UNCHANGED <<persistent, loaded, filters, kpis, prediction, failure>>

AtRiskRaises ==
    /\ Raise("at_risk")
    /\ UNCHANGED <<persistent, loaded, filters, kpis, prediction, report,
                   failure>>

\* except Exception as e: the error message and the debug expander.
Except ==
    /\ pc = "except"
    /\ pc' = "done"
    /\ error_shown' = TRUE
    /\ debug_info' = <<DebugInformation(datasetPresent, modelFile,
                                         scalerFile)>>
    /\ UNCHANGED <<persistent, ran, raised, loaded, filters, kpis,
                   prediction, report>>

\* The next user interaction: Streamlit runs the script again.
Rerun ==
    /\ pc = "done"
    /\ pc' = "load_data"
    /\ ran' = <<>>
    /\ raised' = ""
    /\ df' = <<>>
    /\ model' = "unset"
    /\ scaler' = "unset"
    /\ segments' = {}
    /\ churn_filter' = "All"
    /\ filtered_df' = <<>>
    /\ kpis' = NoKPIs
    /\ pressed' = FALSE
    /\ monetary' = 0
    /\ churn_prob' = 0
    /\ scorer_calls' = 0
    /\ risk_display' = ""
    /\ recommendation' = ""
    /\ model_warning' = FALSE
    /\ at_risk' = <<>>
    /\ display_df' = <<>>
    /\ csv' = <<>>
    /\ no_at_risk_msg' = FALSE
    /\ error_shown' = FALSE
    /\ debug_info' = <<>>
    /\ UNCHANGED persistent

\* The analysis notebooks are run and write the dataset file.
DatasetGenerated ==
    /\ pc = "done"
    /\ ~datasetPresent
    /\ datasetPresent' = TRUE
    /\ UNCHANGED <<disk, modelFile, scalerFile, dataCache, modelCache, reads,
                   control, loaded, filters, kpis, prediction, report,
                   failure>>

Next ==
    \/ LoadDataCached
    \/ LoadDataRead
    \/ LoadDataRaises
    \/ LoadModel
    \/ Filter
    \/ FilterRaises
    \/ KeyMetrics
    \/ KeyMetricsRaises
    \/ Predict
    \/ PredictionIdle
    \/ PredictRaises
    \/ PredictionDisabled
    \/ AtRiskTable
    \/ AtRiskRaises
    \/ Except
    \/ Rerun
    \/ DatasetGenerated

Spec == Init /\ [][Next]_vars

\* ------------------------------------------------------------ properties
Range(f) == {f[i] : i \in DOMAIN f}

Entered(section) == section \in Range(ran)
Completed(section) == Entered(section) /\ raised # section
Finished == pc = "done" /\ raised = ""
Scored == pressed /\ Completed("prediction_tool")
PairIsNull == model = "None" /\ scaler = "None"
IsZero(x) == ~x.nan /\ x.num = 0
NumChurned(frame) == Cardinality({i \in DOMAIN frame : frame[i].Churned = 1})
Tiers == {"HIGH", "MODERATE", "LOW"}
Actions == {"High-Value Customer", "Standard Intervention",
            "Early Warning", "Healthy Customer"}
TierOfAction(a) ==
    IF a \in {"High-Value Customer", "Standard Intervention"} THEN "HIGH"
    ELSE IF a = "Early Warning" THEN "MODERATE"
    ELSE "LOW"
ModeMatches(churn, flag) ==
    \/ churn = "All" /\ flag \in {0, 1}
    \/ churn = "Active Only" /\ flag = 0
    \/ churn = "Churned Only" /\ flag = 1

TypeOK ==
    /\ pc \in {"load_data", "load_model", "filter", "kpis",
               "prediction_tool", "at_risk", "except", "done"}
    /\ reads \in 0 .. MaxReads
    /\ churn_filter \in ChurnFilterOptions

\* C1: whenever a prediction has been made, the displayed tier is HIGH iff
\* the probability is above 0.70, MODERATE iff it is above 0.50 and at most
\* 0.70, LOW iff it is at most 0.50; 0.70 is MODERATE and 0.50 is LOW.
C1_RiskTierThresholds ==
    Scored =>
        /\ risk_display \in Tiers
        /\ risk_display = "HIGH" <=> churn_prob > 70
        /\ risk_display = "MODERATE" <=> (50 < churn_prob /\ churn_prob <= 70)
        /\ risk_display = "LOW" <=> churn_prob <= 50
        /\ churn_prob = 70 => risk_display = "MODERATE"
        /\ churn_prob = 50 => risk_display = "LOW"

C1_Witness == Scored /\ churn_prob = 70 /\ risk_display = "MODERATE"

\* C2: whenever a prediction has been made, exactly one of the four actions
\* is recommended: high-value outreach iff p > 0.70 and monetary > 2000,
\* the standard discount iff p > 0.70 and monetary <= 2000, the
\* re-engagement email iff 0.50 < p <= 0.70, the normal journey iff
\* p <= 0.50; and the action belongs to the tier that is displayed.
C2_RecommendedAction ==
    Scored =>
        /\ recommendation \in Actions
        /\ recommendation = "High-Value Customer"
             <=> (churn_prob > 70 /\ monetary > 2000)
        /\ recommendation = "Standard Intervention"
             <=> (churn_prob > 70 /\ monetary <= 2000)
        /\ recommendation = "Early Warning"
             <=> (50 < churn_prob /\ churn_prob <= 70)
        /\ recommendation = "Healthy Customer" <=> churn_prob <= 50
        /\ TierOfAction(recommendation) = risk_display

C2_Witness ==
    /\ Scored
    /\ churn_prob = 71
    /\ monetary = 2000
    /\ recommendation = "Standard Intervention"

\* C3: once the filter has run, the view holds exactly the rows of the table
\* whose segment is selected and whose churned flag matches the mode, in the
\* order of the table; an empty selection gives an empty view; the All view
\* is the disjoint union of the Active Only and Churned Only views.
C3_FilterExact ==
    Completed("filter") =>
        /\ \A j \in DOMAIN filtered_df :
              /\ filtered_df[j].CustomerID \in DOMAIN df
              /\ df[filtered_df[j].CustomerID] = filtered_df[j]
              /\ filtered_df[j].Segment_Name \in segments
              /\ ModeMatches(churn_filter, filtered_df[j].Churned)
        /\ \A i \in DOMAIN df :
              (df[i].Segment_Name \in segments
                  /\ ModeMatches(churn_filter, df[i].Churned))
              => df[i] \in Range(filtered_df)
        /\ \A j, k \in DOMAIN filtered_df :
              j < k => filtered_df[j].CustomerID < filtered_df[k].CustomerID
        /\ segments = {} => filtered_df = <<>>
        /\ LET all == FilterData(df, segments, "All")
               active == FilterData(df, segments, "Active Only")
               churned == FilterData(df, segments, "Churned Only")
           IN /\ Range(all) = Range(active) \cup Range(churned)
              /\ Range(active) \cap Range(churned) = {}
              /\ Len(all) = Len(active) + Len(churned)
              /\ \A j \in DOMAIN active : active[j].Churned = 0
              /\ \A j \in DOMAIN churned : churned[j].Churned = 1

C3_Witness ==
    /\ Completed("filter")
    /\ segments = {"A"}
    /\ churn_filter = "Churned Only"
    /\ Len(filtered_df) >= 2
    /\ \E i \in DOMAIN df : df[i].Segment_Name = "B"
    /\ \E i \in DOMAIN df : df[i].Segment_Name = "A" /\ df[i].Churned = 0

\* C4: the metrics of an empty view are count 0, churn rate 0, total revenue
\* 0 and average value 0, none of them NaN.
C4_EmptyViewMetricsZero ==
    (Completed("kpis") /\ Len(filtered_df) = 0) =>
        /\ kpis.count = 0
        /\ kpis.total_revenue = 0
        /\ IsZero(kpis.churn_rate)
        /\ IsZero(kpis.avg_value)

\* C5: the export offered for download holds every churned row of the
\* filtered view, also when there are more than 20 of them.
C5_ExportHoldsAllChurned ==
    (Finished /\ Len(csv) > 0) =>
        /\ Len(csv) - 1 = NumChurned(filtered_df)
        /\ \A i \in DOMAIN filtered_df :
              filtered_df[i].Churned = 1
              => \E j \in 2 .. Len(csv) :
                    csv[j][1] = filtered_df[i].CustomerID

\* C6: once the at-risk section has run over a view with n churned rows, the
\* table holds min(20, n) rows, all churned rows of the view, in
\* non-increasing order of Monetary, and no churned row left out has a
\* Monetary above that of a row in the table; with n = 0 neither table nor
\* export is offered and the no-at-risk message is shown, without error.
C6_AtRiskTopN ==
    Finished =>
        LET n == NumChurned(filtered_df) IN
        /\ Len(at_risk) = Min(20, n)
        /\ Len(display_df) = Len(at_risk)
        /\ \A j \in DOMAIN at_risk :
              /\ at_risk[j].Churned = 1
              /\ at_risk[j] \in Range(filtered_df)
              /\ display_df[j].CustomerID = at_risk[j].CustomerID
        /\ \A j, k \in DOMAIN at_risk :
              j < k => /\ at_risk[j].Monetary >= at_risk[k].Monetary
                       /\ at_risk[j] # at_risk[k]
        /\ \A i \in DOMAIN filtered_df :
              (filtered_df[i].Churned = 1
                  /\ filtered_df[i] \notin Range(at_risk))
              => \A j \in DOMAIN at_risk :
                    filtered_df[i].Monetary <= at_risk[j].Monetary
        /\ n = 0 => /\ display_df = <<>>
                    /\ csv = <<>>
                    /\ no_at_risk_msg
                    /\ ~error_shown
        /\ n > 0 => /\ ~no_at_risk_msg
                    /\ Len(csv) > 0

C6_Witness ==
    /\ Finished
    /\ NumChurned(filtered_df) > 20
    /\ Len(at_risk) = 20
    /\ Len(display_df) = 20

\* C7: load_model never raises, and it returns the classifier and the scaler
\* when both files deserialize and (None, None) otherwise: never one of the
\* two without the other.
C7_LoadModelAllOrNothing ==
    /\ raised # "load_model"
    /\ Entered("load_model") =>
          /\ model = "None" <=> scaler = "None"
          /\ (modelFile = "ok" /\ scalerFile = "ok")
                => (model = "model" /\ scaler = "scaler")
          /\ (modelFile # "ok" \/ scalerFile # "ok") => PairIsNull
    /\ \A i \in DOMAIN modelCache :
          modelCache[i][1] = "None" <=> modelCache[i][2] = "None"

C7_Witness ==
    /\ Entered("load_model")
    /\ modelFile = "ok"
    /\ scalerFile = "corrupt"
    /\ PairIsNull

\* C8: the scorer is called only with a non-null pair and a pressed button,
\* at most once per run; with a null pair it is never called, the prediction
\* section shows the warning and does not raise, and a run in which no other
\* section raises goes through the filter, the metrics and the at-risk
\* table and ends without the error handler.
C8_ScorerGate ==
    /\ scorer_calls \in {0, 1}
    /\ scorer_calls > 0 => (model = "model" /\ scaler = "scaler" /\ pressed)
    /\ model_warning => scorer_calls = 0
    /\ PairIsNull =>
          /\ scorer_calls = 0
          /\ risk_display = "" /\ recommendation = ""
          /\ raised # "prediction_tool"
          /\ Entered("prediction_tool") => model_warning
          /\ Finished => /\ ran = Pipeline
                         /\ ~error_shown
                         /\ kpis = KPIs(filtered_df)
                         /\ no_at_risk_msg <=> NumChurned(filtered_df) = 0

C8_Witness ==
    /\ Finished
    /\ PairIsNull
    /\ model_warning
    /\ Len(at_risk) > 0
    /\ kpis.count > 0

C10_DatasetReadOnce ==
    [][/\ Len(dataCache) > 0 =>
             /\ reads' = reads
             /\ dataCache' = dataCache
       /\ reads' <= 1
       /\ (pc = "load_data" /\ pc' = "load_model") =>
             /\ Len(dataCache') = 1
             /\ df' = dataCache'[1]
       /\ (pc # "load_data" /\ pc' # "load_data") => df' = df]_vars

\* A second run has started with the caches filled by an earlier one, and
\* its load_data has returned the cached table.
C10_Witness ==
    /\ pc = "load_model"
    /\ Len(modelCache) = 1
    /\ reads = 1
    /\ Len(df) > 0
    /\ df = dataCache[1]

====
